---- MODULE Spec2Model ----
(***************************************************************************)
(* QLog: asynchronous logger.  Caller threads run Logger::Log, Flush,      *)
(* Shutdown and SetLevel; one background thread runs Logger::Worker.       *)
(* A step of a thread is one access to an object other threads race on    *)
(* (an atomic field, the condition variable) together with the accesses    *)
(* to lock-protected data next to it; a lock taken while another is held   *)
(* is a step of its own.                                                   *)
(***************************************************************************)
EXTENDS Integers, Sequences, FiniteSets, TLC

\* ---------------------------------------------------------------- bounds
MaxLogs == 3
MaxFlushes == 1
MaxShutdowns == 2
MaxSetLevels == 1
MaxCapacity == 2
PoolBlocks == 1
MaxCalls == 4
MaxBreakSets == 2
MaxStampSets == 2

\* ------------------------------------------------------ program constants
Debug == 1
Info == 2
Warn == 3
Critical == 5
BlockSize == 512

LevelSet == {Debug, Info, Warn}
LogLevels == {Info}
InitialLevel == Info
Threads == {"t1", "t2"}
FirstThread == "t1"
MsgSizes == {5}
BreakLevelSet == {Info, Warn}
BreakModes == {"DebugBreak", "Throw"}
NoThread == "none"
WorkerThread == "worker"

NoMsg == [id |-> 0, size |-> 0, ptr |-> 0, pooled |-> FALSE, timestamp |-> FALSE]

VARIABLES
    m_queue, m_capacity, m_level, m_running, m_flushRequested,
    m_mtx, m_poolMtx, m_freeList, heapLive,
    pc, msg, wpc, wmsg,
    sinkLog, nextId, enqLog, evicted, evictOK, calls, filterOK,
    nFlush, nShutdown, nSet,
    snapF, beforeFlush, reqLive, pendRet,
    sdReturned, firstReturned, callers, drainStart,
    m_breakEnabled, m_breakLevel, m_breakMode, nBreakSet, sinkThrows,
    lateAppend, releaseOK, breakOK,
    m_timestampsEnabled, nStampSet, builtStamped, stampedOut

vars == <<m_queue, m_capacity, m_level, m_running, m_flushRequested,
          m_mtx, m_poolMtx, m_freeList, heapLive,
          pc, msg, wpc, wmsg,
          sinkLog, nextId, enqLog, evicted, evictOK, calls, filterOK,
          nFlush, nShutdown, nSet,
          snapF, beforeFlush, reqLive, pendRet,
          sdReturned, firstReturned, callers, drainStart,
          m_breakEnabled, m_breakLevel, m_breakMode, nBreakSet, sinkThrows,
          lateAppend, releaseOK, breakOK,
          m_timestampsEnabled, nStampSet, builtStamped, stampedOut>>

logVars == <<nextId, calls, filterOK, breakOK, callers>>
flushVars == <<nFlush, snapF, beforeFlush, reqLive, pendRet>>
shutVars == <<nShutdown, sdReturned, firstReturned>>
poolVars == <<m_poolMtx, m_freeList, heapLive, releaseOK>>
workerVars == <<wpc, wmsg, sinkLog, drainStart>>
queueVars == <<m_queue, enqLog, evicted, evictOK, lateAppend>>
envVars == <<m_breakEnabled, m_breakLevel, m_breakMode, nBreakSet, sinkThrows>>
stampVars == <<m_timestampsEnabled, nStampSet, builtStamped, stampedOut>>

\* ---------------------------------------------------------------- helpers
\* The calls begun so far.
CallsMade == (nextId - 1) + nFlush + nShutdown + nSet + nBreakSet + nStampSet

Range(s) == {s[i] : i \in 1..Len(s)}

IsWrite(e) == e > 0

\* The mark in sinkLog of the Sink::Flush the worker makes on exit.
FinalFlush == 0 - 1

\* The ids handed to Sink::Write, in call order (0 in sinkLog is the
\* Sink::Flush of a flush request).
Written == SelectSeq(sinkLog, IsWrite)

Ids(q) == [i \in 1..Len(q) |-> q[i].id]

\* A notify_one() that wakes nobody.
NotifyOne_Lost(w) == w

\* condition_variable::notify_one: wakes the worker iff it is blocked in wait.
NotifyOne(w) == IF w = "waiting" THEN "woken" ELSE w

HeapPtr(id) == PoolBlocks + id

\* An Allocate that hands out the top block and leaves it on the free stack.
Allocate_NoPop(n, id) ==
    IF n <= BlockSize /\ Len(m_freeList) > 0
    THEN [ptr |-> m_freeList[Len(m_freeList)], pooled |-> TRUE,
          free |-> m_freeList, heap |-> heapLive]
    ELSE [ptr |-> HeapPtr(id), pooled |-> FALSE,
          free |-> m_freeList, heap |-> heapLive \cup {HeapPtr(id)}]

\* BufferPool::Allocate: the top of the free stack when n fits a block and one
\* is free, a fresh heap array otherwise.
Allocate(n, id) ==
    IF n <= BlockSize /\ Len(m_freeList) > 0
    THEN [ptr |-> m_freeList[Len(m_freeList)], pooled |-> TRUE,
          free |-> SubSeq(m_freeList, 1, Len(m_freeList) - 1),
          heap |-> heapLive]
    ELSE [ptr |-> HeapPtr(id), pooled |-> FALSE,
          free |-> m_freeList,
          heap |-> heapLive \cup {HeapPtr(id)}]

\* A Deallocate that does not delete heap arrays.
Deallocate_PoolOnly(p, pooled) ==
    IF p # 0 /\ pooled
    THEN [free |-> Append(m_freeList, p), heap |-> heapLive]
    ELSE [free |-> m_freeList, heap |-> heapLive]

\* BufferPool::Deallocate: pushes a pooled block's index, deletes a heap array.
Deallocate(p, pooled) ==
    IF p = 0 THEN [free |-> m_freeList, heap |-> heapLive]
    ELSE IF pooled
         THEN [free |-> Append(m_freeList, p), heap |-> heapLive]
         ELSE [free |-> m_freeList, heap |-> heapLive \ {p}]

\* The storage at p is allocated: a pool block that is not on the free stack,
\* a heap array that was not deleted.
Allocated(p, pooled) ==
    /\ p # 0
    /\ IF pooled THEN p \notin Range(m_freeList) ELSE p \in heapLive

\* ------------------------------------------------------------------- Init
\* The members the constructor and the default member initializers set, the
\* break settings and the sink aside.
Constructed ==
    /\ m_queue = <<>>
    /\ m_capacity \in 0..MaxCapacity
    /\ m_level = InitialLevel
    /\ m_running = TRUE
    /\ m_flushRequested = FALSE
    /\ m_mtx = NoThread
    /\ m_poolMtx = NoThread
    /\ m_freeList = [i \in 1..PoolBlocks |-> i]
    /\ heapLive = {}
    /\ pc = [t \in Threads |-> "idle"]
    /\ msg = [t \in Threads |-> NoMsg]
    /\ wpc = "start"
    /\ wmsg = NoMsg
    /\ sinkLog = <<>>
    /\ nextId = 1
    /\ enqLog = <<>>
    /\ evicted = {}
    /\ evictOK = TRUE
    /\ calls = [i \in 1..MaxLogs |-> "none"]
    /\ filterOK = TRUE
    /\ nFlush = 0
    /\ nShutdown = 0
    /\ nSet = 0
    /\ snapF = [t \in Threads |-> {}]
    /\ beforeFlush = {}
    /\ reqLive = [t \in Threads |-> FALSE]
    /\ pendRet = FALSE
    /\ sdReturned = FALSE
    /\ firstReturned = FALSE
    /\ callers = {}
    /\ drainStart = 0
    /\ nBreakSet = 0
    /\ lateAppend = FALSE
    /\ releaseOK = TRUE
    /\ breakOK = TRUE
    /\ m_timestampsEnabled = TRUE
    /\ nStampSet = 0
    /\ builtStamped = {}
    /\ stampedOut = {}

\* m_breakLevel{Level::Critical}, m_breakEnabled{false},
\* m_breakMode{BreakMode::DebugBreak}.
BreakDefaults ==
    /\ m_breakEnabled = FALSE
    /\ m_breakLevel = Critical
    /\ m_breakMode = "DebugBreak"

\* A logger as constructed, on a sink whose Write and Flush return normally.
Init ==
    /\ Constructed
    /\ BreakDefaults
    /\ sinkThrows = FALSE

\* The logger of TEST(QLog, BreaksCanThrowForTesting) after its set-up:
\* SetBreakLevel, SetBreakMode(Throw) and EnableBreaks(true) were called
\* before any other call.
BreakInit ==
    /\ Constructed
    /\ m_breakEnabled = TRUE
    /\ m_breakLevel = Info
    /\ m_breakMode = "Throw"
    /\ sinkThrows = FALSE

\* A logger constructed on a sink whose Write and Flush always throw.
ThrowingSinkInit ==
    /\ Constructed
    /\ BreakDefaults
    /\ sinkThrows = TRUE

\* A filter that also returns for a message at the threshold.
Filtered_Inclusive(lvl, thr) == lvl <= thr

\* ------------------------------------------------------------ Logger::Log
\* if (level < m_level.load()) return;
Filtered(lvl, thr) == lvl < thr

\* A break test that needs the level to be above the break level.
BreakDue_Strict(enabled, lvl, brk) == enabled /\ lvl > brk

\* A break test that does not look at m_breakEnabled.
BreakDue_AlwaysOn(enabled, lvl, brk) == lvl >= brk

\* if (m_breakEnabled.load() && level >= m_breakLevel.load())
BreakDue(enabled, lvl, brk) == enabled /\ lvl >= brk

\* DebugBreakNow(): __builtin_trap() and an unhandled __debugbreak() end the
\* process; under a debugger that resumes, and in the build whose fallback is
\* a no-op, the call returns and Log goes on.
TrapOutcomes == {"trap", "return"}

\* A Log that tests the break before the level filter.
LogOutcome_BreakFirst(filtered, due, mode) ==
    IF due /\ mode = "Throw" THEN "threw"
    ELSE IF filtered THEN "filtered"
    ELSE "go"

\* The order of Log's early exits: the level filter returns first, then the
\* break test throws in Throw mode; otherwise the call goes on.
LogOutcome(filtered, due, mode) ==
    IF filtered THEN "filtered"
    ELSE IF due /\ mode = "Throw" THEN "threw"
    ELSE "go"

\* Log up to the allocation: the level filter returns at once for a message
\* below the threshold; the break test throws BreakException in Throw mode
\* and traps otherwise; the formatting between them touches no shared state.
LogFilter(t, lvl, n) ==
    /\ pc[t] = "idle"
    /\ nextId <= MaxLogs
    /\ CallsMade < MaxCalls
    /\ nextId' = nextId + 1
    /\ callers' = callers \cup {t}
    /\ IF LogOutcome(Filtered(lvl, m_level),
                     BreakDue(m_breakEnabled, lvl, m_breakLevel),
                     m_breakMode) = "filtered"
       THEN /\ calls' = [calls EXCEPT ![nextId] = "filtered"]
            /\ filterOK' = (filterOK /\ lvl < m_level)
            /\ UNCHANGED <<pc, msg, wpc, breakOK>>
       ELSE /\ filterOK' = (filterOK /\ lvl >= m_level)
            /\ IF LogOutcome(Filtered(lvl, m_level),
                             BreakDue(m_breakEnabled, lvl, m_breakLevel),
                             m_breakMode) = "threw"
               THEN /\ calls' = [calls EXCEPT ![nextId] = "threw"]
                    /\ breakOK' = (breakOK /\ m_breakEnabled
                                           /\ lvl >= m_breakLevel)
                    /\ UNCHANGED <<pc, msg, wpc>>
               ELSE /\ breakOK' = (breakOK /\ ~(m_breakMode = "Throw"
                                                /\ m_breakEnabled
                                                /\ lvl >= m_breakLevel))
                    /\ \E o \in (IF BreakDue(m_breakEnabled, lvl, m_breakLevel)
                                 THEN TrapOutcomes ELSE {"return"}) :
                           IF o = "trap"
                           THEN /\ calls' = [calls EXCEPT ![nextId] = "trapped"]
                                /\ pc' = [u \in Threads |-> "trapped"]
                                /\ wpc' = "trapped"
                                /\ UNCHANGED msg
                           ELSE /\ calls' = [calls EXCEPT ![nextId] = "pending"]
                                /\ pc' = [pc EXCEPT ![t] = "alloc"]
                                /\ msg' = [msg EXCEPT ![t] =
                                               [id |-> nextId, size |-> n,
                                                ptr |-> 0, pooled |-> FALSE,
                                                timestamp |-> FALSE]]
                                /\ UNCHANGED wpc
    /\ UNCHANGED <<m_capacity, m_level, m_running, m_flushRequested, m_mtx,
                   poolVars, queueVars, wmsg, sinkLog, drainStart, flushVars,
                   shutVars, nSet, envVars, stampVars>>

\* msg.timestamp = now() if m_timestampsEnabled, std::nullopt otherwise; the
\* model keeps whether the optional holds a value.
CaptureTimestamp(enabled) == enabled

\* { lock_guard lk(m_poolMtx); alloc = m_pool.Allocate(size); } and the Message
\* filled in, its timestamp from m_timestampsEnabled.
LogAllocate(t) ==
    /\ pc[t] = "alloc"
    /\ m_poolMtx = NoThread
    /\ LET a == Allocate(msg[t].size, msg[t].id) IN
        /\ m_freeList' = a.free
        /\ heapLive' = a.heap
        /\ msg' = [msg EXCEPT ![t].ptr = a.ptr, ![t].pooled = a.pooled,
                               ![t].timestamp = CaptureTimestamp(m_timestampsEnabled)]
    /\ builtStamped' = (IF m_timestampsEnabled
                        THEN builtStamped \cup {msg[t].id} ELSE builtStamped)
    /\ pc' = [pc EXCEPT ![t] = "enq"]
    /\ UNCHANGED <<m_capacity, m_level, m_running, m_flushRequested, m_mtx,
                   m_poolMtx, releaseOK, queueVars, workerVars, logVars, flushVars,
                   shutVars, nSet, envVars, m_timestampsEnabled, nStampSet,
                   stampedOut>>

\* A capacity test that lets one record too many in.
QueueFull_OffByOne(q, cap) == cap # 0 /\ Len(q) > cap

\* if (m_capacity != 0 && m_queue.size() >= m_capacity)
QueueFull(q, cap) == cap # 0 /\ Len(q) >= cap

\* An enqueue that does not look at the running flag.
EnqueueBranch_NoCheck(running) == "cap"

\* if (!m_running.load()) { ReleaseMessageStorage(msg); return; }
EnqueueBranch(running) == IF running THEN "cap" ELSE "rej"

\* lock_guard lock(m_mtx) and if (!m_running.load()): Shutdown clears the flag
\* without m_mtx, so the load is a step of its own.
LogEnqueue(t) ==
    /\ pc[t] = "enq"
    /\ m_mtx = NoThread
    /\ m_mtx' = t
    /\ pc' = [pc EXCEPT ![t] = EnqueueBranch(m_running)]
    /\ UNCHANGED <<m_capacity, m_level, m_running, m_flushRequested,
                   poolVars, msg, queueVars, workerVars, logVars,
                   flushVars, shutVars, nSet, envVars, stampVars>>

\* The capacity test with m_mtx held: push_back and the end of the lock's
\* scope when there is room, the eviction of the front otherwise.
LogCapacity(t) ==
    /\ pc[t] = "cap"
    /\ IF QueueFull(m_queue, m_capacity)
       THEN /\ pc' = [pc EXCEPT ![t] = "evict"]
            /\ UNCHANGED <<m_mtx, m_queue, enqLog, calls, lateAppend>>
       ELSE /\ m_queue' = Append(m_queue, msg[t])
            /\ enqLog' = Append(enqLog, msg[t].id)
            /\ lateAppend' = (lateAppend \/ ~m_running)
            /\ calls' = [calls EXCEPT ![msg[t].id] = "enq"]
            /\ m_mtx' = NoThread
            /\ pc' = [pc EXCEPT ![t] = "notify"]
    /\ UNCHANGED <<m_capacity, m_level, m_running, m_flushRequested,
                   poolVars, msg, evicted, evictOK, workerVars, nextId,
                   filterOK, breakOK, callers, flushVars, shutVars, nSet,
                   envVars, stampVars>>

\* A ReleaseMessageStorage that returns with the pool lock still held.
PoolGuardEnd_Leaked(holder) == holder

\* The end of lock_guard lk(m_poolMtx) in ReleaseMessageStorage.
PoolGuardEnd(holder) == NoThread

\* ReleaseMessageStorage(msg) of the rejected message: the pool lock is taken
\* while m_mtx is held.
LogRejectLockPool(t) ==
    /\ pc[t] = "rej"
    /\ m_poolMtx = NoThread
    /\ m_poolMtx' = t
    /\ pc' = [pc EXCEPT ![t] = "rej_cs"]
    /\ UNCHANGED <<m_capacity, m_level, m_running, m_flushRequested, m_mtx,
                   m_freeList, heapLive, releaseOK, msg, queueVars, workerVars, logVars,
                   flushVars, shutVars, nSet, envVars, stampVars>>

\* Deallocate, both locks released, Log returns without notifying.
LogRejectRelease(t) ==
    /\ pc[t] = "rej_cs"
    /\ LET d == Deallocate(msg[t].ptr, msg[t].pooled) IN
        /\ m_freeList' = d.free
        /\ heapLive' = d.heap
    /\ releaseOK' = (releaseOK /\ Allocated(msg[t].ptr, msg[t].pooled))
    /\ calls' = [calls EXCEPT ![msg[t].id] = "rej"]
    /\ m_poolMtx' = PoolGuardEnd(m_poolMtx)
    /\ m_mtx' = NoThread
    /\ msg' = [msg EXCEPT ![t] = NoMsg]
    /\ pc' = [pc EXCEPT ![t] = "idle"]
    /\ UNCHANGED <<m_capacity, m_level, m_running, m_flushRequested,
                   queueVars, workerVars, nextId, filterOK, breakOK, callers,
                   flushVars, shutVars, nSet, envVars, stampVars>>

\* ReleaseMessageStorage(m_queue.front()): the pool lock, m_mtx held.
LogEvictLockPool(t) ==
    /\ pc[t] = "evict"
    /\ m_poolMtx = NoThread
    /\ m_poolMtx' = t
    /\ pc' = [pc EXCEPT ![t] = "evict_cs"]
    /\ UNCHANGED <<m_capacity, m_level, m_running, m_flushRequested, m_mtx,
                   m_freeList, heapLive, releaseOK, msg, queueVars, workerVars, logVars,
                   flushVars, shutVars, nSet, envVars, stampVars>>

\* The front record's storage is deallocated and its fields are cleared.
LogEvictRelease(t) ==
    /\ pc[t] = "evict_cs"
    /\ LET d == Deallocate(m_queue[1].ptr, m_queue[1].pooled) IN
        /\ m_freeList' = d.free
        /\ heapLive' = d.heap
    /\ releaseOK' = (releaseOK /\ Allocated(m_queue[1].ptr, m_queue[1].pooled))
    /\ m_queue' = [m_queue EXCEPT ![1].ptr = 0, ![1].pooled = FALSE]
    /\ m_poolMtx' = PoolGuardEnd(m_poolMtx)
    /\ pc' = [pc EXCEPT ![t] = "push"]
    /\ UNCHANGED <<m_capacity, m_level, m_running, m_flushRequested, m_mtx,
                   msg, enqLog, evicted, evictOK, lateAppend, workerVars, logVars,
                   flushVars, shutVars, nSet, envVars, stampVars>>

\* The queued record that was enqueued first.
OldestQueued ==
    LET qs == {m_queue[i].id : i \in 1..Len(m_queue)}
        k == CHOOSE i \in 1..Len(enqLog) :
                 enqLog[i] \in qs /\ \A j \in 1..(i - 1) : enqLog[j] \notin qs
    IN enqLog[k]

\* An overflow policy that drops the newest queued record.
EvictAndAppend_DropNewest(q, m) == Append(SubSeq(q, 1, Len(q) - 1), m)

\* The queue after pop_front() and push_back(m).
EvictAndAppend(q, m) == Append(Tail(q), m)

\* The record pop_front() drops.
EvictVictim(q) == Head(q)

\* m_queue.pop_front(); m_queue.push_back(msg); m_mtx released.
LogEvictPush(t) ==
    /\ pc[t] = "push"
    /\ m_queue' = EvictAndAppend(m_queue, msg[t])
    /\ enqLog' = Append(enqLog, msg[t].id)
    /\ evicted' = evicted \cup {EvictVictim(m_queue).id}
    /\ evictOK' = (evictOK /\ m_capacity > 0 /\ Len(m_queue) = m_capacity
                            /\ EvictVictim(m_queue).id = OldestQueued)
    /\ lateAppend' = (lateAppend \/ ~m_running)
    /\ calls' = [calls EXCEPT ![msg[t].id] = "enq"]
    /\ m_mtx' = NoThread
    /\ pc' = [pc EXCEPT ![t] = "notify"]
    /\ UNCHANGED <<m_capacity, m_level, m_running, m_flushRequested,
                   poolVars, msg, workerVars, nextId, filterOK, breakOK, callers,
                   flushVars, shutVars, nSet, envVars, stampVars>>

\* m_cv.notify_one() after the enqueue; Log returns.
LogNotify(t) ==
    /\ pc[t] = "notify"
    /\ wpc' = NotifyOne(wpc)
    /\ msg' = [msg EXCEPT ![t] = NoMsg]
    /\ pc' = [pc EXCEPT ![t] = "idle"]
    /\ UNCHANGED <<m_capacity, m_level, m_running, m_flushRequested, m_mtx,
                   poolVars, queueVars, wmsg, sinkLog, drainStart, logVars,
                   flushVars, shutVars, nSet, envVars, stampVars>>

\* ---------------------------------------------------------- Logger::Flush
\* m_flushRequested.store(true): no lock is held.
FlushStore(t) ==
    /\ pc[t] = "idle"
    /\ nFlush < MaxFlushes
    /\ CallsMade < MaxCalls
    /\ nFlush' = nFlush + 1
    /\ callers' = callers \cup {t}
    /\ m_flushRequested' = TRUE
    /\ snapF' = [snapF EXCEPT ![t] = Range(enqLog)]
    /\ reqLive' = [reqLive EXCEPT ![t] = TRUE]
    /\ pc' = [pc EXCEPT ![t] = "f_notify"]
    /\ UNCHANGED <<m_capacity, m_level, m_running, m_mtx, poolVars, msg,
                   queueVars, workerVars, nextId, calls, filterOK, breakOK, beforeFlush,
                   pendRet, shutVars, nSet, envVars, stampVars>>

\* m_cv.notify_one(); Flush returns.
FlushNotify(t) ==
    /\ pc[t] = "f_notify"
    /\ wpc' = NotifyOne(wpc)
    /\ beforeFlush' = beforeFlush \cup snapF[t]
    /\ snapF' = [snapF EXCEPT ![t] = {}]
    /\ pendRet' = (pendRet \/ reqLive[t])
    /\ reqLive' = [reqLive EXCEPT ![t] = FALSE]
    /\ pc' = [pc EXCEPT ![t] = "idle"]
    /\ UNCHANGED <<m_capacity, m_level, m_running, m_flushRequested, m_mtx,
                   poolVars, msg, queueVars, wmsg, sinkLog, drainStart, logVars, nFlush,
                   shutVars, nSet, envVars, stampVars>>

\* ------------------------------------------------------- Logger::Shutdown
\* An exchange that stores the expected value when the comparison fails.
CompareExchange_Swap(cur, expected, desired) ==
    [ok |-> cur = expected, val |-> IF cur = expected THEN desired ELSE expected]

\* atomic::compare_exchange_strong: stores desired iff the value is expected.
CompareExchange(cur, expected, desired) ==
    [ok |-> cur = expected, val |-> IF cur = expected THEN desired ELSE cur]

\* m_running.compare_exchange_strong(expected, false): the loser returns at once.
ShutdownCas(t) ==
    /\ pc[t] = "idle"
    /\ nShutdown < MaxShutdowns
    /\ CallsMade < MaxCalls
    /\ nShutdown' = nShutdown + 1
    /\ callers' = callers \cup {t}
    /\ LET cas == CompareExchange(m_running, TRUE, FALSE) IN
        /\ m_running' = cas.val
        /\ IF cas.ok
           THEN /\ pc' = [pc EXCEPT ![t] = "s_notify"]
                /\ UNCHANGED sdReturned
           ELSE /\ sdReturned' = TRUE
                /\ UNCHANGED pc
    /\ UNCHANGED <<m_capacity, m_level, m_flushRequested, m_mtx, poolVars, msg,
                   queueVars, workerVars, nextId, calls, filterOK, breakOK, flushVars,
                   firstReturned, nSet, envVars, stampVars>>

\* m_cv.notify_one() of the first caller.
ShutdownNotify(t) ==
    /\ pc[t] = "s_notify"
    /\ wpc' = NotifyOne(wpc)
    /\ pc' = [pc EXCEPT ![t] = "s_join"]
    /\ UNCHANGED <<m_capacity, m_level, m_running, m_flushRequested, m_mtx,
                   poolVars, msg, queueVars, wmsg, sinkLog, drainStart, logVars, flushVars,
                   shutVars, nSet, envVars, stampVars>>

\* m_worker.join() returns once the worker thread has ended.
ShutdownJoin(t) ==
    /\ pc[t] = "s_join"
    /\ wpc = "done"
    /\ sdReturned' = TRUE
    /\ firstReturned' = TRUE
    /\ pc' = [pc EXCEPT ![t] = "idle"]
    /\ UNCHANGED <<m_capacity, m_level, m_running, m_flushRequested, m_mtx,
                   poolVars, msg, queueVars, workerVars, logVars, flushVars,
                   nShutdown, nSet, envVars, stampVars>>

\* ------------------------------------------------------- Logger::SetLevel
SetLevel(t, lvl) ==
    /\ pc[t] = "idle"
    /\ nSet < MaxSetLevels
    /\ CallsMade < MaxCalls
    /\ lvl # m_level
    /\ nSet' = nSet + 1
    /\ callers' = callers \cup {t}
    /\ m_level' = lvl
    /\ UNCHANGED <<m_capacity, m_running, m_flushRequested, m_mtx, poolVars,
                   pc, msg, queueVars, workerVars, nextId, calls, filterOK, breakOK,
                   flushVars, shutVars, envVars, stampVars>>

\* ------------------------------------------------ the break settings' setters
\* m_breakEnabled.store(enabled)
EnableBreaks(t, enabled) ==
    /\ pc[t] = "idle"
    /\ nBreakSet < MaxBreakSets
    /\ CallsMade < MaxCalls
    /\ enabled # m_breakEnabled
    /\ nBreakSet' = nBreakSet + 1
    /\ callers' = callers \cup {t}
    /\ m_breakEnabled' = enabled
    /\ UNCHANGED <<m_capacity, m_level, m_running, m_flushRequested, m_mtx,
                   poolVars, pc, msg, queueVars, workerVars, nextId, calls,
                   filterOK, breakOK, flushVars, shutVars, nSet,
                   m_breakLevel, m_breakMode, sinkThrows,
                   stampVars>>

\* m_breakLevel.store(level)
SetBreakLevel(t, lvl) ==
    /\ pc[t] = "idle"
    /\ nBreakSet < MaxBreakSets
    /\ CallsMade < MaxCalls
    /\ lvl # m_breakLevel
    /\ nBreakSet' = nBreakSet + 1
    /\ callers' = callers \cup {t}
    /\ m_breakLevel' = lvl
    /\ UNCHANGED <<m_capacity, m_level, m_running, m_flushRequested, m_mtx,
                   poolVars, pc, msg, queueVars, workerVars, nextId, calls,
                   filterOK, breakOK, flushVars, shutVars, nSet,
                   m_breakEnabled, m_breakMode, sinkThrows,
                   stampVars>>

\* m_timestampsEnabled.store(enabled)
EnableTimestamps(t, enabled) ==
    /\ pc[t] = "idle"
    /\ nStampSet < MaxStampSets
    /\ CallsMade < MaxCalls
    /\ enabled # m_timestampsEnabled
    /\ nStampSet' = nStampSet + 1
    /\ callers' = callers \cup {t}
    /\ m_timestampsEnabled' = enabled
    /\ UNCHANGED <<m_capacity, m_level, m_running, m_flushRequested, m_mtx,
                   poolVars, pc, msg, queueVars, workerVars, nextId, calls,
                   filterOK, breakOK, flushVars, shutVars, nSet, envVars,
                   builtStamped, stampedOut>>

\* m_breakMode.store(mode)
SetBreakMode(t, mode) ==
    /\ pc[t] = "idle"
    /\ nBreakSet < MaxBreakSets
    /\ CallsMade < MaxCalls
    /\ mode # m_breakMode
    /\ nBreakSet' = nBreakSet + 1
    /\ callers' = callers \cup {t}
    /\ m_breakMode' = mode
    /\ UNCHANGED <<m_capacity, m_level, m_running, m_flushRequested, m_mtx,
                   poolVars, pc, msg, queueVars, workerVars, nextId, calls,
                   filterOK, breakOK, flushVars, shutVars, nSet,
                   m_breakEnabled, m_breakLevel, sinkThrows,
                   stampVars>>

\* --------------------------------------------------------- Logger::Worker
\* std::unique_lock lock(m_mtx) on entry.
WorkerLock ==
    /\ wpc = "start"
    /\ m_mtx = NoThread
    /\ m_mtx' = WorkerThread
    /\ wpc' = "loop"
    /\ UNCHANGED <<m_capacity, m_level, m_running, m_flushRequested, poolVars,
                   pc, msg, queueVars, wmsg, sinkLog, drainStart, logVars, flushVars,
                   shutVars, nSet, envVars, stampVars>>

\* An unlock that leaves the mutex with its holder.
Unlock_Skipped(holder) == holder

\* lock.unlock()
Unlock(holder) == NoThread

\* A worker whose catch clause is missing: the exception ends the process.
AfterTry_Uncaught(threw, next) == IF threw THEN "terminated" ELSE next

\* try { sink call } catch (...) { }: the worker goes on to the statement
\* after the try block whether or not the call threw.
AfterTry(threw, next) == next

\* A worker loop that ends whenever the queue is empty.
LoopCondition_QueueOnly == m_queue # <<>>

\* A worker loop that ends as soon as the running flag is cleared.
LoopCondition_RunningOnly == m_running

\* while (m_running || !m_queue.empty())
LoopCondition == m_running \/ m_queue # <<>>

\* The loop test with m_mtx held; on exit the lock is released.
WorkerLoop ==
    /\ wpc = "loop"
    /\ IF LoopCondition
       THEN /\ wpc' = "pred"
            /\ UNCHANGED m_mtx
       ELSE /\ wpc' = "final"
            /\ m_mtx' = Unlock(m_mtx)
    /\ UNCHANGED <<m_capacity, m_level, m_running, m_flushRequested, poolVars,
                   pc, msg, queueVars, wmsg, sinkLog, drainStart, logVars, flushVars,
                   shutVars, nSet, envVars, stampVars>>

\* The predicate of m_cv.wait.
WaitPredicate == ~m_running \/ m_queue # <<>> \/ m_flushRequested

\* wait(lock, pred) evaluates pred with m_mtx held.
WorkerPred ==
    /\ wpc = "pred"
    /\ wpc' = (IF WaitPredicate THEN "drain" ELSE "block")
    /\ UNCHANGED <<m_capacity, m_level, m_running, m_flushRequested, m_mtx,
                   poolVars, pc, msg, queueVars, wmsg, sinkLog, drainStart, logVars,
                   flushVars, shutVars, nSet, envVars, stampVars>>

\* condition_variable::wait(lock): releases m_mtx and blocks, atomically.
WorkerBlock ==
    /\ wpc = "block"
    /\ m_mtx' = NoThread
    /\ wpc' = "waiting"
    /\ UNCHANGED <<m_capacity, m_level, m_running, m_flushRequested, poolVars,
                   pc, msg, queueVars, wmsg, sinkLog, drainStart, logVars, flushVars,
                   shutVars, nSet, envVars, stampVars>>

\* A wake-up no notify caused, which the standard allows.
SpuriousWake ==
    /\ wpc = "waiting"
    /\ wpc' = "woken"
    /\ UNCHANGED <<m_capacity, m_level, m_running, m_flushRequested, m_mtx,
                   poolVars, pc, msg, queueVars, wmsg, sinkLog, drainStart, logVars,
                   flushVars, shutVars, nSet, envVars, stampVars>>

\* The woken worker takes m_mtx again and re-evaluates the predicate.
WorkerWake ==
    /\ wpc = "woken"
    /\ m_mtx = NoThread
    /\ m_mtx' = WorkerThread
    /\ wpc' = "pred"
    /\ UNCHANGED <<m_capacity, m_level, m_running, m_flushRequested, poolVars,
                   pc, msg, queueVars, wmsg, sinkLog, drainStart, logVars, flushVars,
                   shutVars, nSet, envVars, stampVars>>

\* A worker that copies the front record and leaves it in the queue.
DequeueFront_Peek(q) == [m |-> Head(q), rest |-> q]

\* A worker that takes the newest record.
DequeueFront_Newest(q) == [m |-> q[Len(q)], rest |-> SubSeq(q, 1, Len(q) - 1)]

\* msg = std::move(m_queue.front()); m_queue.pop_front();
DequeueFront(q) == [m |-> Head(q), rest |-> Tail(q)]

\* An inner loop that stops with one record left in the queue.
DrainCondition_LeavesLast(q) == Len(q) > 1

\* while (!m_queue.empty()): the inner loop's test, with m_mtx held.
DrainCondition(q) == q # <<>>

\* With m_mtx held: the next record is moved out and m_mtx released; with the
\* queue empty, m_flushRequested.exchange(false), m_mtx released on true.
DrainOrFlushCheck ==
    IF DrainCondition(m_queue)
    THEN /\ wmsg' = DequeueFront(m_queue).m
         /\ drainStart' = (IF drainStart = 0 THEN Len(enqLog) ELSE drainStart)
         /\ m_queue' = DequeueFront(m_queue).rest
         /\ m_mtx' = Unlock(m_mtx)
         /\ wpc' = "write"
         /\ UNCHANGED <<m_flushRequested, reqLive, pendRet>>
    ELSE IF m_flushRequested
         THEN /\ m_flushRequested' = FALSE
              /\ m_mtx' = Unlock(m_mtx)
              /\ reqLive' = [t \in Threads |-> FALSE]
              /\ pendRet' = FALSE
              /\ wpc' = "sinkflush"
              /\ UNCHANGED <<wmsg, m_queue, drainStart>>
         ELSE /\ wpc' = "loop"
              /\ m_mtx' = WorkerThread
              /\ UNCHANGED <<wmsg, m_queue, drainStart, m_flushRequested,
                             reqLive, pendRet>>

\* The inner loop entered after the wait.
WorkerDrain ==
    /\ wpc = "drain"
    /\ DrainOrFlushCheck
    /\ UNCHANGED <<m_capacity, m_level, m_running, poolVars,
                   pc, msg, enqLog, evicted, evictOK, lateAppend, sinkLog, logVars,
                   nFlush, snapF, beforeFlush, shutVars, nSet, envVars, stampVars>>

\* A sink that prefixes by the setting current at the write.
FormatTimestamp_CurrentSetting(message) ==
    IF m_timestampsEnabled THEN "[ts] " ELSE ""

\* FormatTimestamp: "" for a message without a timestamp, the bracketed time
\* and a space otherwise.
FormatTimestamp(message) == IF message.timestamp THEN "[ts] " ELSE ""

\* m_sink->Write(msg) inside try/catch, then ReleaseMessageStorage(msg) under
\* the pool lock; m_mtx is not held. The line the sink writes begins with
\* FormatTimestamp(msg).
WorkerWrite ==
    /\ wpc = "write"
    /\ m_poolMtx = NoThread
    /\ sinkLog' = Append(sinkLog, wmsg.id)
    /\ stampedOut' = (IF FormatTimestamp(wmsg) # ""
                      THEN stampedOut \cup {wmsg.id} ELSE stampedOut)
    /\ wpc' = AfterTry(sinkThrows, "relock")
    /\ IF AfterTry(sinkThrows, "relock") = "relock"
       THEN /\ LET d == Deallocate(wmsg.ptr, wmsg.pooled) IN
                /\ m_freeList' = d.free
                /\ heapLive' = d.heap
            /\ releaseOK' = (releaseOK /\ Allocated(wmsg.ptr, wmsg.pooled))
            /\ wmsg' = NoMsg
       ELSE UNCHANGED <<m_freeList, heapLive, releaseOK, wmsg>>
    /\ UNCHANGED <<m_capacity, m_level, m_running, m_flushRequested, m_mtx,
                   m_poolMtx, pc, msg, queueVars, drainStart, logVars, flushVars,
                   shutVars, nSet, envVars, m_timestampsEnabled,
                   nStampSet, builtStamped>>

\* lock.lock() after a record, and the inner loop's next test.
WorkerRelock ==
    /\ wpc = "relock"
    /\ m_mtx = NoThread
    /\ DrainOrFlushCheck
    /\ UNCHANGED <<m_capacity, m_level, m_running, poolVars,
                   pc, msg, enqLog, evicted, evictOK, lateAppend, sinkLog, logVars,
                   nFlush, snapF, beforeFlush, shutVars, nSet, envVars, stampVars>>

\* m_sink->Flush() for a request inside try/catch, then lock.lock().
WorkerSinkFlush ==
    /\ wpc = "sinkflush"
    /\ m_mtx = NoThread
    /\ sinkLog' = Append(sinkLog, 0)
    /\ wpc' = AfterTry(sinkThrows, "loop")
    /\ m_mtx' = (IF AfterTry(sinkThrows, "loop") = "loop"
                 THEN WorkerThread ELSE m_mtx)
    /\ UNCHANGED <<m_capacity, m_level, m_running, m_flushRequested,
                   poolVars, pc, msg, queueVars, wmsg, drainStart, logVars, flushVars,
                   shutVars, nSet, envVars, stampVars>>

\* The final m_sink->Flush() inside try/catch; the thread ends.
WorkerFinalFlush ==
    /\ wpc = "final"
    /\ sinkLog' = Append(sinkLog, FinalFlush)
    /\ wpc' = AfterTry(sinkThrows, "done")
    /\ UNCHANGED <<m_capacity, m_level, m_running, m_flushRequested, m_mtx,
                   poolVars, pc, msg, queueVars, wmsg, drainStart, logVars, flushVars,
                   shutVars, nSet, envVars, stampVars>>

\* ------------------------------------------------------------------- Next
WorkerStep ==
    \/ WorkerLock
    \/ WorkerLoop
    \/ WorkerPred
    \/ WorkerBlock
    \/ WorkerWake
    \/ WorkerDrain
    \/ WorkerWrite
    \/ WorkerRelock
    \/ WorkerSinkFlush
    \/ WorkerFinalFlush

\* The steps of a call that has begun.
ThreadContinue(t) ==
    \/ LogAllocate(t)
    \/ LogEnqueue(t)
    \/ LogCapacity(t)
    \/ LogRejectLockPool(t)
    \/ LogRejectRelease(t)
    \/ LogEvictLockPool(t)
    \/ LogEvictRelease(t)
    \/ LogEvictPush(t)
    \/ LogNotify(t)
    \/ FlushNotify(t)
    \/ ShutdownNotify(t)
    \/ ShutdownJoin(t)

\* The caller threads run the same code, so the thread that makes the first
\* call is named FirstThread.
MayBegin(t) == t = FirstThread \/ FirstThread \in callers

\* A caller thread begins a call.
ThreadCall(t) ==
    \/ \E lvl \in LogLevels, n \in MsgSizes : LogFilter(t, lvl, n)
    \/ FlushStore(t)
    \/ ShutdownCas(t)
    \/ \E lvl \in LevelSet : SetLevel(t, lvl)

Next ==
    \/ \E t \in Threads : MayBegin(t) /\ ThreadCall(t)
    \/ \E t \in Threads : ThreadContinue(t)
    \/ WorkerStep
    \/ SpuriousWake

Spec == Init /\ [][Next]_vars

\* A caller thread changes a break setting.
BreakCall(t) ==
    \/ \E enabled \in BOOLEAN : EnableBreaks(t, enabled)
    \/ \E lvl \in BreakLevelSet : SetBreakLevel(t, lvl)
    \/ \E mode \in BreakModes : SetBreakMode(t, mode)

BreakNext ==
    \/ Next
    \/ \E t \in Threads : MayBegin(t) /\ BreakCall(t)

\* A caller thread may also switch the timestamps.
TimestampNext ==
    \/ Next
    \/ \E t \in Threads : MayBegin(t) /\
           \E enabled \in BOOLEAN : EnableTimestamps(t, enabled)

\* The logger with the timestamps switched off and on.
TimestampSpec == Init /\ [][TimestampNext]_vars

\* Only the callers are scheduled fairly: the worker may stay in any step,
\* a sink call in particular, for ever.
ProducerFairSpec == Spec /\ \A t \in Threads : WF_vars(ThreadContinue(t))

\* The logger with breaks in use.
BreakSpec == BreakInit /\ [][BreakNext]_vars

\* The logger on a sink that throws.
ThrowingSinkSpec == ThrowingSinkInit /\ [][Next]_vars

\* The scheduler runs every thread that can take a step; nothing obliges a
\* caller to begin another call, or the condition variable to wake spuriously.
FairSpec ==
    /\ Spec
    /\ WF_vars(WorkerStep)
    /\ \A t \in Threads : WF_vars(ThreadContinue(t))

\* ============================================================ properties
WrittenIds == Range(Written)

\* The position of x in a sequence that holds it.
Pos(sq, x) == CHOOSE i \in 1..Len(sq) : sq[i] = x

\* a holds no element twice, only elements of b, and in b's order.
IsSubsequence(a, b) ==
    /\ \A i \in 1..Len(a) : \E j \in 1..Len(b) : b[j] = a[i]
    /\ \A i, j \in 1..Len(a) : i < j => Pos(b, a[i]) < Pos(b, a[j])

\* The last c elements of sq.
LastOf(sq, c) == SubSeq(sq, Len(sq) - c + 1, Len(sq))

IsPrefix(a, b) == Len(a) <= Len(b) /\ a = SubSeq(b, 1, Len(a))

\* No thread that the scheduler must run can take a step: the worker is
\* blocked in wait or has ended, and no caller is inside a call it can go on
\* with.  Only a new call or a spurious wake-up changes such a state.
WorkerCanStep ==
    \/ wpc \in {"loop", "pred", "block", "drain", "final"}
    \/ wpc \in {"start", "woken", "relock", "sinkflush"} /\ m_mtx = NoThread
    \/ wpc = "write" /\ m_poolMtx = NoThread

ThreadCanStep(t) ==
    \/ pc[t] \in {"cap", "rej_cs", "evict_cs", "push", "notify", "f_notify",
                 "s_notify"}
    \/ pc[t] \in {"alloc", "rej", "evict"} /\ m_poolMtx = NoThread
    \/ pc[t] = "enq" /\ m_mtx = NoThread
    \/ pc[t] = "s_join" /\ wpc = "done"

Quiescent ==
    /\ ~WorkerCanStep
    /\ \A t \in Threads : ~ThreadCanStep(t)

\* WorkerCanStep and ThreadCanStep say when the steps are enabled.
QuiescentIsDisabled ==
    /\ WorkerCanStep <=> ENABLED WorkerStep
    /\ \A t \in Threads : ThreadCanStep(t) <=> ENABLED ThreadContinue(t)

\* ---------------------------------------------------------------------- C1
\* C1: the records handed to Sink::Write are a subsequence of the successful
\* enqueues, in enqueue order, and no evicted record is ever among them.
C1_FifoDelivery ==
    /\ IsSubsequence(Written, enqLog)
    /\ WrittenIds \cap evicted = {}
    /\ (wmsg # NoMsg => wmsg.id \notin evicted)

C1_Witness ==
    /\ Len(Written) >= 2
    /\ evicted # {}

\* ---------------------------------------------------------------------- C2
\* C2: every Shutdown() call that has returned, a second or a concurrent one
\* included, returned after the worker thread ended.
C2_ShutdownReturnsAfterWorkerEnd == sdReturned => wpc = "done"

\* ---------------------------------------------------------------------- C3
\* C3: under fair scheduling the first Shutdown() call eventually returns:
\* once the running flag is cleared the worker ends and the call comes back
\* from join.
C3_ShutdownReturns == (~m_running) ~> firstReturned

\* ---------------------------------------------------------------------- C4
\* C4: the worker is never blocked in wait while the request of a Flush() call
\* that has returned is pending, or while a record accepted before such a call
\* is neither written nor evicted.
C4_NoWaitWithFlushPending ==
    wpc = "waiting" =>
        /\ ~pendRet
        /\ beforeFlush \subseteq (WrittenIds \cup evicted)

\* ---------------------------------------------------------------------- C5
\* C5: when the first Shutdown() call has returned the queue is empty and
\* every record ever appended was written to the sink or evicted.
C5_ShutdownDrains ==
    firstReturned =>
        /\ m_queue = <<>>
        /\ wmsg = NoMsg
        /\ Range(enqLog) \subseteq (WrittenIds \cup evicted)

C5_Witness ==
    /\ firstReturned
    /\ Len(Written) >= 2
    /\ \E i \in 1..MaxLogs : calls[i] = "rej"

\* ---------------------------------------------------------------------- C6
\* C6: with capacity C > 0 the queue never holds more than C records; an
\* eviction happens only with C > 0 and C records queued, drops the oldest
\* queued record, and its storage is released before the new record is
\* appended; with C = 0 nothing is ever evicted.
C6_BoundedQueue ==
    /\ m_capacity > 0 => Len(m_queue) <= m_capacity
    /\ evictOK
    /\ m_capacity = 0 => evicted = {}
    /\ \A t \in Threads : pc[t] = "push" =>
           /\ m_queue[1].ptr = 0
           /\ m_queue[1].ptr \notin heapLive
           /\ msg[t].id \notin Range(enqLog)
           /\ msg[t].id \notin {m_queue[i].id : i \in 1..Len(m_queue)}

C6_Witness ==
    /\ m_capacity = 2
    /\ evicted # {}
    /\ Len(m_queue) = 2

\* ---------------------------------------------------------------------- C7
\* C7: with capacity C > 0, once k > C messages were enqueued before the
\* worker's first dequeue, the queue holds exactly the last C of them, and
\* with no further enqueue the sink observes exactly those C, in enqueue
\* order, and none of the first k - C.
C7_LastCDelivered ==
    /\ (m_capacity > 0 /\ Len(enqLog) > m_capacity /\ drainStart = 0) =>
           /\ Ids(m_queue) = LastOf(enqLog, m_capacity)
           /\ evicted = Range(SubSeq(enqLog, 1, Len(enqLog) - m_capacity))
    /\ (m_capacity > 0 /\ drainStart > m_capacity /\ Len(enqLog) = drainStart) =>
           /\ IsPrefix(Written, LastOf(enqLog, m_capacity))
           /\ Quiescent => Written = LastOf(enqLog, m_capacity)

C7_Witness ==
    /\ m_capacity = 2
    /\ drainStart = 3
    /\ Quiescent
    /\ Written = <<enqLog[2], enqLog[3]>>

\* ---------------------------------------------------------------------- C8
\* One producer has logged capacity + 1 messages, all of them enqueued, and
\* its Flush() after them has returned; no other call was made.
SingleProducerOverflow ==
    /\ m_capacity > 0
    /\ nextId = m_capacity + 2
    /\ Cardinality(callers) = 1
    /\ nShutdown = 0
    /\ nSet = 0
    /\ enqLog = [i \in 1..(m_capacity + 1) |-> i]
    /\ beforeFlush = 1..(m_capacity + 1)

\* C8 as stated: in that run the first message is never written to the sink.
C8_FirstNeverWritten == SingleProducerOverflow => 1 \notin WrittenIds

\* What the logger does guarantee in that run: only the first message can be
\* evicted, and it is iff the worker had not dequeued it when the last message
\* was enqueued; once the worker is idle the sink holds the other C messages
\* in order, after the first one when that was dequeued in time.
C8_LastCWritten ==
    SingleProducerOverflow =>
        /\ evicted \subseteq {1}
        /\ 1 \in evicted <=> drainStart \in {0, m_capacity + 1}
        /\ Quiescent =>
               Written = (IF 1 \in evicted
                          THEN [i \in 1..m_capacity |-> i + 1]
                          ELSE [i \in 1..(m_capacity + 1) |-> i])

\* The run in which the worker dequeued the first message in time.
C8_FirstWritten ==
    /\ SingleProducerOverflow
    /\ Quiescent
    /\ m_capacity = 2
    /\ Written = <<1, 2, 3>>

\* ---------------------------------------------------------------------- C9
\* C9: a Log call is filtered iff its level is below the threshold it read; a
\* filtered message is never enqueued or written; a call that passed the
\* filter and has returned was appended to the queue, unless the logger was
\* no longer running.
C9_LevelFilter ==
    /\ filterOK
    /\ \A i \in 1..MaxLogs :
           /\ calls[i] = "filtered" =>
                  /\ i \notin WrittenIds
                  /\ i \notin Range(enqLog)
                  /\ \A t \in Threads : msg[t].id # i
           /\ calls[i] = "enq" => i \in Range(enqLog)
           /\ calls[i] = "rej" => (~m_running /\ i \notin Range(enqLog))
           /\ calls[i] = "pending" => \E t \in Threads : msg[t].id = i

C9_Witness ==
    /\ nSet > 0
    /\ \E i, j \in 1..MaxLogs :
           /\ calls[i] = "filtered"
           /\ calls[j] = "enq"
           /\ j \in WrittenIds

\* --------------------------------------------------------------------- C10
\* C10 as stated: once no thread can go on without a new call, every message
\* enqueued before a Flush() call that has returned is written to the sink.
C10_AllBeforeFlushWritten == Quiescent => beforeFlush \subseteq WrittenIds

\* C10 amended: every such message is written unless the overflow policy
\* evicted it.
C10_BeforeFlushWrittenOrEvicted ==
    Quiescent => beforeFlush \subseteq (WrittenIds \cup evicted)

C10_Witness ==
    /\ Quiescent
    /\ wpc = "waiting"
    /\ Cardinality(beforeFlush) >= 2
    /\ beforeFlush \subseteq WrittenIds

\* --------------------------------------------------------------------- C11
\* C11 as stated: once Shutdown has cleared the running flag no record is
\* appended to the queue.
C11_NoAppendAfterStop == ~lateAppend

\* The callers between the load of m_running and the end of the enqueue.
Appending == {t \in Threads : pc[t] \in {"cap", "evict", "evict_cs", "push"}}

\* C11 amended: a Log call whose load of m_running under m_mtx finds the
\* logger not running appends nothing, releases the storage it allocated
\* once and returns, and its message is never queued or written; a record is
\* appended after the flag was cleared only by a call that loaded the flag
\* before and still holds m_mtx, so never once the worker has left its loop.
C11_RejectedDropped ==
    /\ releaseOK
    /\ lateAppend => ~m_running
    /\ \A t \in Appending : m_mtx = t
    /\ wpc \in {"final", "done"} => Appending = {}
    /\ \A t \in Threads : pc[t] \in {"rej", "rej_cs"} =>
           /\ ~m_running
           /\ m_mtx = t
           /\ msg[t].id \notin Range(enqLog)
           /\ Allocated(msg[t].ptr, msg[t].pooled)
    /\ \A i \in 1..MaxLogs : calls[i] = "rej" =>
           /\ ~m_running
           /\ i \notin Range(enqLog)
           /\ i \notin WrittenIds
           /\ i \notin Range(Ids(m_queue))
           /\ \A t \in Threads : msg[t].id # i

C11_Witness ==
    /\ lateAppend
    /\ \E i \in 1..MaxLogs : calls[i] = "rej"
    /\ \A t \in Threads : pc[t] = "idle"

\* --------------------------------------------------------------------- C12
\* The number of final flushes the sink has received.
FinalFlushes == Cardinality({i \in 1..Len(sinkLog) : sinkLog[i] = FinalFlush})

\* The running flag is false from the first Shutdown() call on; the sink gets
\* the final flush once, when the worker ends, and nothing after it.
C12_StoppedOnce ==
    /\ nShutdown > 0 => ~m_running
    /\ nShutdown = 0 => m_running
    /\ FinalFlushes = (IF wpc = "done" THEN 1 ELSE 0)
    /\ wpc = "done" => sinkLog[Len(sinkLog)] = FinalFlush
    /\ firstReturned => wpc = "done"

\* A Shutdown() call that begins after another has returned returns in the
\* same step and leaves the logger, the pool, the worker and the sink alone.
C12_LaterCallIsNoOp ==
    (sdReturned /\ nShutdown' = nShutdown + 1) =>
        UNCHANGED <<m_running, m_flushRequested, m_level, m_queue, m_mtx,
                    m_poolMtx, m_freeList, heapLive, wpc, wmsg, sinkLog, pc,
                    msg>>

\* C12: Shutdown is idempotent: a call made after an earlier one has returned
\* changes no logger state and causes no sink call; the running flag goes to
\* false once and stays false, and the final flush happens exactly once.
C12_ShutdownIdempotent == []C12_StoppedOnce /\ [][C12_LaterCallIsNoOp]_vars

C12_Witness ==
    /\ firstReturned
    /\ nShutdown = 2
    /\ \A t \in Threads : pc[t] = "idle"
    /\ Len(Written) >= 1

\* --------------------------------------------------------------------- C13
\* C13: no thread, caller or worker, holds the queue lock m_mtx and the pool
\* lock m_poolMtx at the same time.
C13_LocksNeverBothHeld ==
    \A h \in Threads \cup {WorkerThread} : ~(m_mtx = h /\ m_poolMtx = h)

\* --------------------------------------------------------------------- C14
\* The callers whose Message owns storage: from the allocation up to the
\* push_back that moves it into the queue, or the release.
Building ==
    {t \in Threads : pc[t] \in {"enq", "cap", "rej", "rej_cs", "evict",
                                 "evict_cs", "push"}}

\* The ids of the live records whose storage is at p.
Holders(p) ==
    {msg[t].id : t \in {u \in Building : msg[u].ptr = p}}
        \cup {m_queue[i].id : i \in {j \in 1..Len(m_queue) : m_queue[j].ptr = p}}
        \cup (IF wmsg.ptr = p THEN {wmsg.id} ELSE {})

PoolPtrs == 1..PoolBlocks
HeapPtrs == {HeapPtr(i) : i \in 1..MaxLogs}

\* C14: the storage Log allocates for a record is released exactly once:
\* every release is of allocated storage, storage is allocated exactly while
\* one live record owns it, and when every call has returned, Shutdown
\* included, all pool blocks are on the free stack and no heap array is left.
C14_ReleasedExactlyOnce ==
    /\ releaseOK
    /\ \A p \in PoolPtrs :
           Cardinality(Holders(p)) = (IF p \in Range(m_freeList) THEN 0 ELSE 1)
    /\ \A p \in HeapPtrs :
           Cardinality(Holders(p)) = (IF p \in heapLive THEN 1 ELSE 0)
    /\ heapLive \subseteq HeapPtrs
    /\ (firstReturned /\ \A t \in Threads : pc[t] = "idle") =>
           /\ Range(m_freeList) = PoolPtrs
           /\ Len(m_freeList) = PoolBlocks
           /\ heapLive = {}

C14_Witness ==
    /\ firstReturned
    /\ \A t \in Threads : pc[t] = "idle"
    /\ evicted # {}
    /\ Written # <<>>
    /\ \E i \in 1..MaxLogs : calls[i] = "rej"

\* --------------------------------------------------------------------- C15
\* The number of live records, being built, queued or being written, whose
\* storage is pool block b.
PoolRefs(b) ==
    Cardinality({t \in Building : msg[t].pooled /\ msg[t].ptr = b})
        + Cardinality({i \in 1..Len(m_queue) :
                          m_queue[i].pooled /\ m_queue[i].ptr = b})
        + (IF wmsg.pooled /\ wmsg.ptr = b THEN 1 ELSE 0)

\* C15: a pool block index is on the free stack iff no live record references
\* the block; the stack holds no index twice and no more indices than there
\* are blocks; no block is referenced by two live records.
C15_PoolExclusive ==
    /\ Len(m_freeList) <= PoolBlocks
    /\ Range(m_freeList) \subseteq PoolPtrs
    /\ \A i, j \in 1..Len(m_freeList) : m_freeList[i] = m_freeList[j] => i = j
    /\ \A b \in PoolPtrs :
           /\ PoolRefs(b) <= 1
           /\ b \in Range(m_freeList) <=> PoolRefs(b) = 0

C15_Witness ==
    /\ m_freeList = <<>>
    /\ heapLive # {}
    /\ wmsg.pooled
    /\ \E t \in Building : ~msg[t].pooled /\ msg[t].ptr # 0
    /\ m_queue # <<>>

\* --------------------------------------------------------------------- C16
\* The record r owns storage that is allocated and that no other live record
\* references.
OwnsLiveStorage(r) ==
    /\ Allocated(r.ptr, r.pooled)
    /\ Holders(r.ptr) = {r.id}

\* C16: no storage is used after its release: a record is enqueued only
\* after its storage was allocated and filled; the record the sink is
\* writing, every queued record and every record being built owns allocated
\* storage of its own until it is released; a released record is gone: the
\* worker's is dropped with the release, an evicted one is popped before
\* m_mtx is released.
C16_NoUseAfterRelease ==
    /\ \A t \in Threads : pc[t] = "alloc" =>
           /\ msg[t].ptr = 0
           /\ msg[t].id \notin Range(enqLog)
    /\ \A t \in Building : OwnsLiveStorage(msg[t])
    /\ wpc = "write" => OwnsLiveStorage(wmsg)
    /\ wpc # "write" => wmsg = NoMsg
    /\ \A i \in 1..Len(m_queue) :
           IF m_queue[i].ptr # 0
           THEN OwnsLiveStorage(m_queue[i])
           ELSE i = 1 /\ \E t \in Threads : pc[t] = "push" /\ m_mtx = t

\* The pool's block, released by an eviction, belongs to a new record while
\* the sink is writing another one.
C16_Witness ==
    /\ wpc = "write"
    /\ evicted # {}
    /\ PoolBlocks = 1 => ~wmsg.pooled
    /\ \E t \in Building : msg[t].pooled

\* --------------------------------------------------------------------- C17
\* The worker is inside Sink::Write, or in the release that follows it, or
\* inside Sink::Flush.
InSink == wpc \in {"write", "sinkflush", "final"}

\* The caller is inside Log or Flush.
InLogOrFlush(t) ==
    pc[t] \in {"alloc", "enq", "cap", "rej", "rej_cs", "evict", "evict_cs",
               "push", "notify", "f_notify"}

\* C17: the worker holds neither lock while it is inside a sink call, so a
\* sink call that never returns stalls no producer: whenever the worker is
\* inside one and some caller is inside Log or Flush, a caller inside Log or
\* Flush can take its next step; Log and Flush have no loops, so they return.
C17_SinkStallsNoProducer ==
    InSink =>
        /\ m_mtx # WorkerThread
        /\ m_poolMtx # WorkerThread
        /\ (\E t \in Threads : InLogOrFlush(t)) =>
               \E u \in Threads : InLogOrFlush(u) /\ ThreadCanStep(u)

\* A producer evicts the front of the full queue while the sink is writing.
C17_Witness ==
    /\ wpc = "write"
    /\ \E t \in Threads : pc[t] = "evict_cs"
    /\ \E u \in Threads : pc[u] = "f_notify"

\* With a sink call that never returns, every Log and Flush call returns.
C17_CallsReturn ==
    (<>[](wpc = "write")) =>
        \A t \in Threads : (InLogOrFlush(t) ~> pc[t] = "idle")

\* --------------------------------------------------------------------- C18
\* In Throw mode a Log call past the filter threw iff breaks were enabled and
\* its level was at or above the break level; a message whose call threw is
\* nowhere: not built, not queued, not written.
C18_ThrownIffDue ==
    /\ breakOK
    /\ \A i \in 1..MaxLogs : calls[i] = "threw" =>
           /\ i \notin Range(enqLog)
           /\ i \notin WrittenIds
           /\ i \notin Range(Ids(m_queue))
           /\ wmsg.id # i
           /\ \A t \in Threads : msg[t].id # i

\* The step in which a Log call throws allocates nothing and leaves the
\* queue, the pool, the locks, the flags and the worker as they were; the
\* caller is back outside the call.
C18_ThrowChangesNothing ==
    (\E i \in 1..MaxLogs : calls[i] # "threw" /\ calls'[i] = "threw") =>
        UNCHANGED <<m_queue, m_freeList, heapLive, m_mtx, m_poolMtx, m_running,
                    m_flushRequested, m_level, m_breakEnabled, m_breakLevel,
                    m_breakMode, wpc, wmsg, sinkLog, pc, msg>>

\* C18: with breaks enabled and break mode Throw, a Log call whose level
\* passes the filter throws BreakException on the caller's thread iff
\* level >= break level, before any storage is allocated and before the
\* message is queued: the message is never written and queue, pool and flags
\* are unchanged; a call below the break level does not throw.
C18_BreakThrows == []C18_ThrownIffDue /\ [][C18_ThrowChangesNothing]_vars

C18_Witness ==
    /\ m_breakEnabled
    /\ m_breakMode = "Throw"
    /\ m_breakLevel = Warn
    /\ nBreakSet = 1
    /\ \E i \in 1..MaxLogs : calls[i] = "threw"
    /\ \E j \in 1..MaxLogs : calls[j] = "enq" /\ j \in WrittenIds

\* --------------------------------------------------------------------- C19
\* A thrown break does not stop the logger, and once nothing can take a step
\* every accepted record has been written or was evicted for capacity.
C19_StillRunning ==
    /\ nShutdown = 0 => m_running
    /\ wpc # "terminated"
    /\ Quiescent /\ wpc # "trapped" =>
           \A i \in 1..MaxLogs :
               /\ calls[i] # "pending"
               /\ calls[i] = "enq" => i \in WrittenIds \cup evicted

\* After some call threw, a Log call made with breaks disabled whose level
\* passes the filter goes on to build its message, whatever the break level.
C19_LogAfterBreak ==
    /\ \E i \in 1..MaxLogs : calls[i] = "threw"
    /\ ~m_breakEnabled
    /\ nextId' = nextId + 1
    /\ calls'[nextId] # "filtered"
    => /\ calls'[nextId] = "pending"
       /\ \E t \in Threads : pc[t] = "idle" /\ pc'[t] = "alloc"
                                /\ msg'[t].id = nextId

\* C19: after a Log call threw BreakException the logger is still running;
\* once breaks are disabled a later Log call at or above the former break
\* level is accepted and ends up written to the sink (or evicted for
\* capacity) like any other.
C19_UsableAfterBreak == []C19_StillRunning /\ [][C19_LogAfterBreak]_vars

C19_Witness ==
    /\ ~m_breakEnabled
    /\ m_breakLevel = Info
    /\ \E i \in 1..MaxLogs : \E j \in 1..MaxLogs :
           /\ i < j
           /\ calls[i] = "threw"
           /\ calls[j] = "enq"
           /\ j \in WrittenIds
    /\ m_running

\* --------------------------------------------------------------------- C20
\* With a sink whose Write and Flush always throw: the worker never ends
\* because of it and no Log call throws; the record just handed to Write has
\* had its storage released, once, and is held nowhere afterwards; the
\* records handed to Write follow enqueue order; a returned first Shutdown()
\* found the queue drained, the worker ended and the final flush made; and
\* the worker only ever rests in the wait or at its end.
C20_WorkerSurvives ==
    /\ sinkThrows
    /\ wpc # "terminated"
    /\ \A i \in 1..MaxLogs : calls[i] \notin {"threw", "trapped"}
    /\ releaseOK
    /\ wpc = "relock" => wmsg = NoMsg
    /\ \A i \in WrittenIds :
           /\ wmsg.id # i
           /\ i \notin Range(Ids(m_queue))
           /\ HeapPtr(i) \notin heapLive
    /\ \A p \in PoolPtrs \cup HeapPtrs : Cardinality(Holders(p)) <= 1
    /\ IsSubsequence(Written, enqLog)
    /\ firstReturned =>
           /\ m_queue = <<>>
           /\ Range(enqLog) \subseteq (WrittenIds \cup evicted)
           /\ wpc = "done"
           /\ sinkLog # <<>>
           /\ sinkLog[Len(sinkLog)] = FinalFlush
    /\ Quiescent => wpc \in {"waiting", "done"}

\* A step that calls the sink leaves every caller where it was and takes the
\* worker to the statement after the try block.
C20_SinkCallContinues ==
    Len(sinkLog') > Len(sinkLog) =>
        /\ pc' = pc
        /\ calls' = calls
        /\ wpc = "write" => wpc' = "relock"
        /\ wpc = "sinkflush" => wpc' = "loop"
        /\ wpc = "final" => wpc' = "done"

C21_EndsStoppedAndDrained ==
    /\ wpc \in {"final", "done"} =>
           /\ ~m_running
           /\ m_queue = <<>>
           /\ wmsg = NoMsg
           /\ m_mtx # WorkerThread
    /\ wpc = "done" <=> FinalFlush \in Range(sinkLog)
    /\ \A k \in 1..Len(sinkLog) : sinkLog[k] = FinalFlush => k = Len(sinkLog)

\* The worker leaves its loop only by the final flush, whatever
\* m_flushRequested holds, and the sink receives nothing after it.
C21_NothingAfterFinalFlush ==
    /\ wpc = "final" /\ wpc' # "final" =>
           /\ wpc' = "done"
           /\ sinkLog' = Append(sinkLog, FinalFlush)
    /\ wpc = "done" => wpc' = "done" /\ sinkLog' = sinkLog

\* C21: the worker terminates only with the running flag false and the queue
\* empty; on termination it makes one last Sink::Flush whether or not a flush
\* was requested, and that Flush is the last call the sink receives: no Write
\* follows it.
C21_FinalFlushLast ==
    []C21_EndsStoppedAndDrained /\ [][C21_NothingAfterFinalFlush]_vars

C21_Witness ==
    /\ wpc = "done"
    /\ nFlush = 0
    /\ ~m_flushRequested
    /\ Len(Written) >= 2
    /\ \E i \in 1..MaxLogs : calls[i] = "rej"

\* --------------------------------------------------------------------- C22
\* The Flush() calls in progress whose request the worker has consumed.
ConsumedInProgress == {t \in Threads : pc[t] = "f_notify" /\ ~reqLive[t]}

\* The records appended before a Flush() call whose request the worker has
\* consumed: those of the calls in progress, and those of the returned calls
\* when no returned call's request is still pending.
AcceptedBeforeConsumed ==
    UNION {snapF[t] : t \in ConsumedInProgress}
        \cup (IF pendRet THEN {} ELSE beforeFlush)

\* On the way to Sink::Flush for a request, every record appended before a
\* Flush() call whose request was consumed is written or evicted, and none of
\* them is queued or in the worker's hand.
C22_ConsumedAreWritten ==
    /\ wpc = "sinkflush" =>
           /\ wmsg = NoMsg
           /\ m_mtx # WorkerThread
    /\ AcceptedBeforeConsumed \subseteq (WrittenIds \cup evicted)
    /\ AcceptedBeforeConsumed \cap Range(Ids(m_queue)) = {}
    /\ wmsg # NoMsg => wmsg.id \notin AcceptedBeforeConsumed

\* The step that consumes m_flushRequested is the worker's, taken with the
\* queue empty while no caller holds m_mtx or is inside an enqueue; it appends
\* nothing, and at that moment every record ever appended is written or
\* evicted; it leads to Sink::Flush.
C22_ConsumedWithQueueEmpty ==
    m_flushRequested /\ ~m_flushRequested' =>
        /\ m_mtx \notin Threads
        /\ Appending = {}
        /\ wpc \in {"drain", "relock"} /\ wpc' = "sinkflush"
        /\ m_queue = <<>> /\ m_queue' = <<>>
        /\ enqLog' = enqLog
        /\ wmsg = NoMsg
        /\ Range(enqLog) \subseteq (WrittenIds \cup evicted)

\* C22: when the worker calls Sink::Flush for a flush request, the queue was
\* empty when it consumed m_flushRequested and nothing was enqueued between
\* its last empty test and the consumption, so every record accepted before
\* the corresponding Flush() call is already written to the sink (or was
\* evicted) and none is pending when the sink is flushed.
C22_FlushAfterDrain ==
    []C22_ConsumedAreWritten /\ [][C22_ConsumedWithQueueEmpty]_vars

C22_Witness ==
    /\ wpc = "sinkflush"
    /\ ConsumedInProgress # {}
    /\ \E t \in ConsumedInProgress : Cardinality(snapF[t]) >= 2
    /\ m_queue # <<>>

\* --------------------------------------------------------------------- C23
\* A step in which a Log call begins while every level a call can carry is
\* below the threshold.
BeginsFilteredLog ==
    /\ nextId' = nextId + 1
    /\ \A lvl \in LogLevels : lvl < m_level

\* Such a call returns in that step as filtered, whatever the break settings
\* are, and changes nothing else: no storage, queue, pool, lock, flag, break
\* setting, caller position, worker position or sink entry.
C23_FilteredChangesNothing ==
    BeginsFilteredLog =>
        /\ calls' = [calls EXCEPT ![nextId] = "filtered"]
        /\ UNCHANGED <<m_queue, enqLog, evicted, m_freeList, heapLive, m_mtx,
                       m_poolMtx, m_running, m_flushRequested, m_level,
                       m_capacity, m_breakEnabled, m_breakLevel, m_breakMode,
                       pc, msg, wpc, wmsg, sinkLog, breakOK>>

\* A filtered call's message is nowhere: not built, not queued, not written.
C23_FilteredIsNowhere ==
    \A i \in 1..MaxLogs : calls[i] = "filtered" =>
        /\ i \notin Range(enqLog)
        /\ i \notin WrittenIds
        /\ i \notin Range(Ids(m_queue))
        /\ wmsg.id # i
        /\ \A t \in Threads : msg[t].id # i

\* C23: a Log call the threshold filters out has no effect: it allocates no
\* storage, leaves queue, pool free stack and every flag unchanged, does not
\* wake the worker, and raises no break even with breaks enabled and the level
\* at or above the break level, the filter being evaluated before the break
\* test.
C23_FilteredNoEffect ==
    []C23_FilteredIsNowhere /\ [][C23_FilteredChangesNothing]_vars

C23_Witness ==
    /\ nBreakSet = 0
    /\ m_breakEnabled
    /\ m_breakMode = "Throw"
    /\ \A lvl \in LogLevels : lvl >= m_breakLevel /\ lvl < m_level
    /\ \E i \in 1..MaxLogs : \E j \in 1..MaxLogs :
           /\ i < j
           /\ calls[i] = "threw"
           /\ calls[j] = "filtered"

\* --------------------------------------------------------------------- C24
\* The records that exist: built and in a caller's hand, queued, or in the
\* worker's hand.
LiveRecords ==
    {msg[t] : t \in {u \in Threads : pc[u] \notin {"idle", "alloc", "trapped"}}}
        \cup Range(m_queue)
        \cup (IF wmsg = NoMsg THEN {} ELSE {wmsg})

\* A record holds a timestamp iff timestamps were enabled when Log built it,
\* and a written record's line began with a timestamp iff they were.
C24_StampFixedAtBuild ==
    /\ \A r \in LiveRecords : r.timestamp <=> r.id \in builtStamped
    /\ stampedOut \subseteq WrittenIds
    /\ \A i \in WrittenIds : i \in stampedOut <=> i \in builtStamped

\* The step that builds a record takes its timestamp from the setting of that
\* moment; EnableTimestamps changes no record and no written line.
C24_StampFromSetting ==
    /\ \A t \in Threads :
           pc[t] = "alloc" /\ pc'[t] = "enq" =>
               (msg'[t].timestamp <=> m_timestampsEnabled)
    /\ m_timestampsEnabled' # m_timestampsEnabled =>
           UNCHANGED <<msg, m_queue, wmsg, builtStamped, stampedOut, sinkLog>>

\* C24: a record carries a capture timestamp iff timestamps were enabled when
\* its Log call built it; EnableTimestamps after the record is enqueued and
\* before the worker writes it does not change whether it is written with a
\* timestamp, so after EnableTimestamps(false) every message logged from then
\* on reaches the sink without one.
C24_TimestampAtBuild ==
    []C24_StampFixedAtBuild /\ [][C24_StampFromSetting]_vars

C24_Witness ==
    /\ m_timestampsEnabled
    /\ nStampSet = 2
    /\ wpc = "write"
    /\ ~wmsg.timestamp
    /\ \E i \in WrittenIds : i \notin stampedOut

\* --------------------------------------------------------------------- C25
\* The threads of the program.
AllThreads == Threads \cup {WorkerThread}

\* The thread's next step is the acquisition of m_mtx.
WaitsForQueueLock(x) ==
    IF x = WorkerThread
    THEN wpc \in {"start", "woken", "relock"}
    ELSE pc[x] = "enq"

\* The thread's next step is the acquisition of m_poolMtx.
WaitsForPoolLock(x) ==
    IF x = WorkerThread
    THEN wpc = "write"
    ELSE pc[x] \in {"alloc", "rej", "evict"}

\* Two threads each hold one of the two locks and wait for the other's.
DeadlockedOnLocks ==
    \E x \in AllThreads : \E y \in AllThreads \ {x} :
        /\ m_mtx = x /\ WaitsForPoolLock(x)
        /\ m_poolMtx = y /\ WaitsForQueueLock(y)

\* The holder of the pool lock waits for no lock, the worker waits for the
\* pool lock without m_mtx, no two threads are deadlocked on the two locks,
\* and whenever a lock is held some holder of a lock can take its next step.
C25_OrderedLocks ==
    /\ \A x \in AllThreads : m_poolMtx = x =>
           /\ ~WaitsForQueueLock(x)
           /\ ~WaitsForPoolLock(x)
    /\ WaitsForPoolLock(WorkerThread) => m_mtx # WorkerThread
    /\ ~DeadlockedOnLocks
    /\ m_poolMtx \in Threads => ThreadCanStep(m_poolMtx)
    /\ m_mtx \in Threads =>
           \/ ThreadCanStep(m_mtx)
           \/ m_poolMtx \in Threads /\ ThreadCanStep(m_poolMtx)
    /\ m_mtx = WorkerThread => WorkerCanStep

\* A step that acquires m_mtx is taken by a thread that does not hold the
\* pool lock.
C25_QueueLockFirst ==
    \A x \in AllThreads :
        m_mtx # x /\ m_mtx' = x => m_poolMtx # x /\ m_poolMtx' # x

\* C25: the locks are acquired in one order: no thread acquires the queue
\* lock m_mtx while holding the pool lock m_poolMtx, and the worker never
\* holds m_mtx while waiting for m_poolMtx; so in no reachable state are
\* producers and worker deadlocked on the two locks.
C25_NoLockDeadlock == []C25_OrderedLocks /\ [][C25_QueueLockFirst]_vars

\* One producer holds both locks in an eviction while another waits for the
\* pool lock and the woken worker waits for m_mtx.
C25_Witness ==
    \E t \in Threads : \E u \in Threads \ {t} :
        /\ pc[t] = "evict_cs"
        /\ m_mtx = t
        /\ m_poolMtx = t
        /\ pc[u] = "alloc"
        /\ wpc = "woken"

====
